---- MODULE Spec2Model ----
(***************************************************************************)
(* Model of the MIDI scheduling and raw-payload import code of CSV_MIDIv3. *)
(*                                                                         *)
(*   src/src/core/midi_generator.py      MIDIGenerator (scheduler)         *)
(*   src/Grok/GrokMidi/midi_generator.py create_midi_file (hex import)     *)
(*   src/src/midi_generator.py           generate_midi                     *)
(*   src/midi_generator.py               MIDIGenerator.create_midi_file    *)
(*   src/Grok/GrokMidi/midi_generator2.py save_hex_to_midi (versioned)     *)
(*   src/src/instruments/base.py         convert_to_4_4 (normalizer)       *)
(*                                                                         *)
(* Times and durations are integers counting 1/16 of a beat, so 0.0625     *)
(* beat is 1, 0.25 beat (one quantization step) is 4 and one beat is 16.   *)
(* Every float the modelled inputs produce is a multiple of 1/16 and is    *)
(* exactly representable, so the integer arithmetic is exact.              *)
(***************************************************************************)
EXTENDS Integers, Sequences, FiniteSets, TLC

VARIABLES
    original_time_signature,  \* MIDIGenerator._original_time_signature
    last_note_time,           \* MIDIGenerator._last_note_time, per channel
    midi,                     \* notes handed to MIDIFile.addNote, in call order
    offered,                  \* note events handed to add_pattern so far
    fs,                       \* file system seen by create_midi_file
    io,                       \* argument and outcome of the last create_midi_file
    out,                      \* call, outcome and output file of a generator
                              \* output operation (generate_midi, write)
    norm,                     \* call and result of the time-signature normalizer
    store,                    \* output directory and writers of versioned saves
    vlq,                      \* value and bytes of the delta-time codec
    gens,                     \* two MIDIGenerator instances used side by side
    drums,                    \* a Drums instance and its last generate_pattern
    bass,                     \* the last Bass.generate_pattern call
    render,                   \* track offsets of the last song rendering
    cache                     \* a PatternManager and its last get_pattern

vars == <<original_time_signature, last_note_time, midi, offered, fs, io,
          out, norm, store, vlq, gens, drums, bass, render, cache>>

lateVars == <<gens, drums, bass, render, cache>>

schedVars == <<original_time_signature, last_note_time, midi, offered>>
importVars == <<fs, io>>

-----------------------------------------------------------------------------
(* Bounds of the model.                                                    *)

MaxNotes == 2        \* notes scheduled on one generator
MaxPatLen == 2       \* events in one pattern

-----------------------------------------------------------------------------
(* Program constants.                                                      *)

UnitsPerBeat == 16   \* 0.0625 beat, the smallest duration, is one unit
DefaultVelocity == 100
DrumChannel == 9
NumChannels == 16

Max(a, b) == IF a >= b THEN a ELSE b
Min(a, b) == IF a <= b THEN a ELSE b

\* Python 3 round(n / d) for integers n and d > 0: nearest integer, a tie
\* going to the even neighbour.
RoundHalfEven(n, d) ==
    LET q == n \div d
        r == n % d
    IN  IF 2 * r < d THEN q
        ELSE IF 2 * r > d THEN q + 1
        ELSE IF q % 2 = 0 THEN q ELSE q + 1

\* The rounding a round-half-up implementation would perform.
RoundHalfUp(n, d) == (2 * n + d) \div (2 * d)

\* _quantize_time: round(time * 4) / 4
quantize_time_halfup(time) ==
    (RoundHalfUp(time * 4, UnitsPerBeat) * UnitsPerBeat) \div 4
quantize_time(time) ==
    (RoundHalfEven(time * 4, UnitsPerBeat) * UnitsPerBeat) \div 4

\* _convert_time_to_44: time * (beat_value / 4) * (4 / 4) unless 4/4
convert_time_to_44(sig, time) ==
    IF sig = <<4, 4>> THEN time
    ELSE (time * sig[2]) \div 4

\* _parse_note_event: a tuple of at least three numbers, velocity optional
parse_note_event(event) ==
    IF Len(event) >= 3
    THEN [ok |-> TRUE, note |-> event[1], time |-> event[2],
          duration |-> event[3],
          velocity |-> IF Len(event) > 3 THEN event[4] ELSE DefaultVelocity]
    ELSE [ok |-> FALSE]

\* key of sorted(pattern, key=...)
SortKey(x) == IF Len(x) > 1 THEN x[2] ELSE 0

RECURSIVE InsertByKey(_, _)
InsertByKey(e, s) ==
    IF s = <<>> THEN <<e>>
    ELSE IF SortKey(Head(s)) <= SortKey(e)
         THEN <<Head(s)>> \o InsertByKey(e, Tail(s))
         ELSE <<e>> \o s

\* sorted(): stable, ascending by key
RECURSIVE sorted(_)
sorted(pattern) ==
    IF pattern = <<>> THEN <<>>
    ELSE InsertByKey(pattern[Len(pattern)],
                     sorted(SubSeq(pattern, 1, Len(pattern) - 1)))

\* channel the notes of an instrument go to
ChannelOf(instrument) ==
    IF instrument.name = "drums" THEN DrumChannel ELSE instrument.midi_channel

\* note = max(0, min(127, note)), same for velocity
Clamp127_none(v) == v
Clamp127(v) == Max(0, Min(127, v))

\* note_duration = max(0.0625, note_duration)
MinDuration(d) == Max(1, d)

\* quantized_time = max(self._last_note_time[channel], quantize(converted))
QuantizedTime_nopush(last, converted_time) == quantize_time(converted_time)
QuantizedTime(last, converted_time) ==
    Max(last, quantize_time(converted_time))

\* self._last_note_time[channel] = quantized_time + quantized_duration
NextLastNoteTime_start(quantized_time, quantized_duration) == quantized_time
NextLastNoteTime(quantized_time, quantized_duration) ==
    quantized_time + quantized_duration

\* body of the for loop of add_pattern for one event; st = [midi, last]
ProcessEvent(st, instrument, event, start_time, sig) ==
    LET nd == parse_note_event(event) IN
    IF ~nd.ok THEN st
    ELSE
      LET channel == ChannelOf(instrument)
          note == Clamp127(nd.note)
          velocity == Clamp127(nd.velocity)
          note_duration == MinDuration(nd.duration)
          converted_time == convert_time_to_44(sig, start_time + nd.time)
          converted_duration == convert_time_to_44(sig, note_duration)
          quantized_start == quantize_time(converted_time)
          quantized_time == QuantizedTime(st.last[channel], converted_time)
          quantized_duration == quantize_time(converted_duration)
      IN  [midi |-> Append(st.midi,
                     [channel |-> channel, note |-> note,
                      time |-> quantized_time,
                      duration |-> quantized_duration,
                      velocity |-> velocity,
                      \* inputs and locals of the loop body, kept for the
                      \* properties
                      instrument |-> instrument, event |-> event,
                      start_time |-> start_time,
                      converted_time |-> converted_time,
                      converted_duration |-> converted_duration,
                      quantized_start |-> quantized_start,
                      last_before |-> st.last[channel]]),
           last |-> [st.last EXCEPT ![channel] =
                        NextLastNoteTime(quantized_time, quantized_duration)]]

RECURSIVE ProcessAll(_, _, _, _, _)
ProcessAll(st, instrument, events, start_time, sig) ==
    IF events = <<>> THEN st
    ELSE ProcessAll(ProcessEvent(st, instrument, Head(events), start_time, sig),
                    instrument, Tail(events), start_time, sig)

-----------------------------------------------------------------------------
(* Inputs.                                                                 *)

Piano == [name |-> "piano", midi_channel |-> 0]
Drums == [name |-> "drums", midi_channel |-> 9]
Instruments == {Piano, Drums}

TimeSignatures == {<<4, 4>>, <<6, 8>>}

Events ==
    { <<60, 0, 16>>,          \* (60, 0.0, 1.0)
      <<67, 0, 16>>,          \* (67, 0.0, 1.0)
      <<60, 2, 1, 100>>,      \* start 0.125 (a tie), duration 0.0625
      <<130, 10, -6, -5>>,    \* start 0.625 (a tie), pitch above and velocity
                              \* below the range, negative duration
      <<60>> }                \* not a note event

StartTimes == {0, 1}

Patterns == UNION { [1..n -> Events] : n \in 0..MaxPatLen }

NumParsed(pattern) ==
    Cardinality({i \in 1..Len(pattern) : parse_note_event(pattern[i]).ok})

-----------------------------------------------------------------------------
(* MIDIGenerator                                                           *)

SchedInit ==
    /\ original_time_signature \in TimeSignatures
    /\ last_note_time = [c \in 0..(NumChannels - 1) |-> 0]
    /\ midi = <<>>
    /\ offered = 0

\* add_pattern(instrument, pattern, start_time)
add_pattern(instrument, pattern, start_time) ==
    /\ out.op = "none"
    /\ Len(midi) + NumParsed(pattern) <= MaxNotes
    /\ offered' = offered + NumParsed(pattern)
    /\ IF pattern = <<>>
       THEN UNCHANGED <<midi, last_note_time>>
       ELSE LET st == ProcessAll([midi |-> midi, last |-> last_note_time],
                                 instrument, sorted(pattern), start_time,
                                 original_time_signature)
            IN  /\ midi' = st.midi
                /\ last_note_time' = st.last
    /\ UNCHANGED <<original_time_signature, fs, io, out, norm, store, vlq,
                 lateVars>>

AddPattern ==
    \E instrument \in Instruments, pattern \in Patterns,
       start_time \in StartTimes :
        add_pattern(instrument, pattern, start_time)

-----------------------------------------------------------------------------
(* Raw-payload import: src/Grok/GrokMidi/midi_generator.py                 *)
(* Hex text is a sequence of one-character strings.                        *)

UpperDigits == <<"0", "1", "2", "3", "4", "5", "6", "7", "8", "9",
                 "A", "B", "C", "D", "E", "F">>
LowerDigits == <<"0", "1", "2", "3", "4", "5", "6", "7", "8", "9",
                 "a", "b", "c", "d", "e", "f">>

IsHexChar(c) == \E i \in 1..16 : UpperDigits[i] = c \/ LowerDigits[i] = c
HexVal(c) == CHOOSE v \in 0..15 : UpperDigits[v + 1] = c \/ LowerDigits[v + 1] = c

\* str.startswith / str.endswith
startswith(s, p) == Len(s) >= Len(p) /\ SubSeq(s, 1, Len(p)) = p
endswith(s, p) == Len(s) >= Len(p) /\ SubSeq(s, Len(s) - Len(p) + 1, Len(s)) = p

ZeroPair == <<"0", "0">>

\* while hex_data.startswith('00'): hex_data = hex_data[2:]
RECURSIVE StripLeading(_)
StripLeading(s) ==
    IF startswith(s, ZeroPair) THEN StripLeading(SubSeq(s, 3, Len(s))) ELSE s

\* while hex_data.endswith('00'): hex_data = hex_data[:-2]
RECURSIVE StripTrailing(_)
StripTrailing(s) ==
    IF endswith(s, ZeroPair) THEN StripTrailing(SubSeq(s, 1, Len(s) - 2)) ELSE s

MThdMagic == <<"4", "D", "5", "4", "6", "8", "6", "4">>
MTrkMagic == <<"4", "D", "5", "4", "7", "2", "6", "B">>
\* header = '4D54686400000006000000010060'
HeaderHex == <<"4", "D", "5", "4", "6", "8", "6", "4",
               "0", "0", "0", "0", "0", "0", "0", "6",
               "0", "0", "0", "0", "0", "0", "0", "1", "0", "0", "6", "0">>

Pow16(k) == IF k = 0 THEN 1 ELSE IF k = 1 THEN 16 ELSE IF k = 2 THEN 256
            ELSE IF k = 3 THEN 4096 ELSE IF k = 4 THEN 65536
            ELSE IF k = 5 THEN 1048576 ELSE IF k = 6 THEN 16777216
            ELSE 268435456

\* format(track_length, '08x')
format08x(n) == [i \in 1..8 |-> LowerDigits[((n \div Pow16(8 - i)) % 16) + 1]]

\* hex_data[16:]
SkipChunkHeader(s) == SubSeq(s, 17, Len(s))

\* lines 54-73 of create_midi_file: cleanup, classification and repair
FullData(hex_in) ==
    LET hex_data == StripTrailing(StripLeading(hex_in)) IN
    IF startswith(hex_data, MThdMagic) THEN hex_data
    ELSE LET track_content == IF startswith(hex_data, MTrkMagic)
                              THEN SkipChunkHeader(hex_data)
                              ELSE hex_data
             track_length == Len(track_content) \div 2
             full_track == MTrkMagic \o format08x(track_length) \o track_content
         IN  HeaderHex \o full_track

\* bytes.fromhex: ValueError on a non-hex character or an odd length
fromhex(s) ==
    IF Len(s) % 2 = 0 /\ \A i \in 1..Len(s) : IsHexChar(s[i])
    THEN [ok |-> TRUE,
          bytes |-> [i \in 1..(Len(s) \div 2) |->
                        16 * HexVal(s[2 * i - 1]) + HexVal(s[2 * i])]]
    ELSE [ok |-> FALSE, bytes |-> <<>>]

HexDumpWidth == 32

\* ' '.join(hex_data[i:i+2] for i in range(0, len(hex_data), 2))
JoinPairs(h) ==
    LET n == Len(h)
        pairs == (n + 1) \div 2
    IN  [k \in 1..(IF n = 0 THEN 0 ELSE n + pairs - 1) |->
            IF (k - 1) % 3 = 2 THEN " " ELSE h[2 * ((k - 1) \div 3) + ((k - 1) % 3) + 1]]

\* '\n'.join(formatted_hex[i:i+32] for i in range(0, len(formatted_hex), 32))
WrapLines(t) ==
    LET n == Len(t)
        lines == (n + HexDumpWidth - 1) \div HexDumpWidth
    IN  [k \in 1..(IF n = 0 THEN 0 ELSE n + lines - 1) |->
            IF (k - 1) % (HexDumpWidth + 1) = HexDumpWidth THEN "\n"
            ELSE t[HexDumpWidth * ((k - 1) \div (HexDumpWidth + 1))
                   + ((k - 1) % (HexDumpWidth + 1)) + 1]]

\* content save_hex_to_text writes
HexDumpText(hex_data) == <<"Full MIDI Hex:\n">> \o WrapLines(JoinPairs(hex_data))

NoFile == [exists |-> FALSE, data |-> <<>>]
FileOf(d) == [exists |-> TRUE, data |-> d]

\* Output paths end in '.mid', so the dump path differs from the output path
\* and lies in the same directory. DirPath has a directory part
\* ('Output/song.mid'), BarePath has none ('song.mid', in the working
\* directory). fs.dir tells whether the directory of the path exists.
DirPath == [dirname_empty |-> FALSE]
BarePath == [dirname_empty |-> TRUE]

\* How the operating system answers open(output_path, 'wb') and f.write.
IoOutcomes == {"ok", "open_fails", "write_fails"}

\* what a write that fails part-way leaves in the file
Partial(bytes) == SubSeq(bytes, 1, Len(bytes) \div 2)

\* create_midi_file(hex_data, output_path)
create_midi_file(hex_data, output_path, io_outcome) ==
    LET full_data == FullData(hex_data)
        binary_data == fromhex(full_data)
        rec(result, opens) ==
            [op |-> "create_midi_file", hex_data |-> hex_data,
             output_path |-> output_path, io_outcome |-> io_outcome,
             result |-> result, opens |-> opens, fs_before |-> fs,
             \* lines 91-93: except Exception ... raise
             report |-> IF result = "ok" THEN "returned" ELSE "raised"]
        dumped == [fs EXCEPT !.txt = FileOf(HexDumpText(full_data))]
    IN  /\ io.op = "none"
        /\ output_path.dirname_empty => fs.dir
        /\ IF ~binary_data.ok
           THEN \* bytes.fromhex raises ValueError, re-raised at line 93
                /\ io' = rec("ValueError", 0)
                /\ fs' = fs
           ELSE IF ~fs.dir
           THEN \* open(text_path, 'w') fails: the directory is made only later
                /\ io' = rec("FileNotFoundError", 0)
                /\ fs' = fs
           ELSE IF output_path.dirname_empty
           THEN \* os.makedirs('') raises after the dump was written
                /\ io' = rec("FileNotFoundError", 0)
                /\ fs' = dumped
           ELSE IF io_outcome = "open_fails"
           THEN /\ io' = rec("OSError", 1)
                /\ fs' = dumped
           ELSE IF io_outcome = "write_fails"
           THEN /\ io' = rec("OSError", 1)
                /\ fs' = [dumped EXCEPT
                             !.mid = FileOf(Partial(binary_data.bytes))]
           ELSE /\ io' = rec("ok", 1)
                /\ fs' = [dumped EXCEPT !.mid = FileOf(binary_data.bytes)]
        /\ UNCHANGED <<schedVars, out, norm, store, vlq,
                 lateVars>>

-----------------------------------------------------------------------------
(* Inputs of the import.                                                   *)

MaxBody == 4         \* byte pairs after the prefix of an input text

Len4Hex == <<"0", "0", "0", "0", "0", "0", "0", "4">>
Len0Hex == <<"0", "0", "0", "0", "0", "0", "0", "0">>
BadLenHex == <<"Z", "Z", "Z", "Z", "Z", "Z", "Z", "Z">>

ToLower(s) ==
    [i \in 1..Len(s) |->
        IF \E v \in 1..16 : UpperDigits[v] = s[i]
        THEN LowerDigits[CHOOSE v \in 1..16 : UpperDigits[v] = s[i]]
        ELSE s[i]]

Prefixes ==
    { <<>>,                                       \* raw events
      HeaderHex \o MTrkMagic \o Len4Hex,          \* a full file
      ToLower(HeaderHex \o MTrkMagic \o Len4Hex), \* the same in lower case
      MTrkMagic \o Len4Hex,                       \* a track chunk
      MTrkMagic \o Len0Hex,                       \* a wrong declared length
      ToLower(MTrkMagic \o Len4Hex),
      MTrkMagic \o BadLenHex,                     \* non-hex length field
      MTrkMagic }                                 \* truncated chunk header

BytePairs == { <<"0", "0">>, <<"F", "F">>, <<"2", "F">>, <<"9", "c">> }

RECURSIVE Flatten(_)
Flatten(ss) == IF ss = <<>> THEN <<>> ELSE Head(ss) \o Flatten(Tail(ss))

Bodies == { Flatten(b) : b \in UNION { [1..n -> BytePairs] : n \in 0..MaxBody } }

Suffixes == { <<>>, <<"0">>, <<"Z", "Z">> }

HexInputs == { p \o b \o s : p \in Prefixes, b \in Bodies, s \in Suffixes }

OldBytes == <<1>>
OldText == <<"old">>

InitialFs ==
    { [dir |-> FALSE, mid |-> NoFile, txt |-> NoFile],
      [dir |-> TRUE, mid |-> NoFile, txt |-> NoFile],
      [dir |-> TRUE, mid |-> FileOf(OldBytes), txt |-> FileOf(OldText)] }

CreateMidiFile ==
    \E hex_data \in HexInputs : create_midi_file(hex_data, DirPath, "ok")

-----------------------------------------------------------------------------
(* Track assembly of the encoder behind MIDIFile.writeFile, which is not    *)
(* part of the sources: modelled from section 4.3 of the specification.     *)

TicksPerQuarter == 960

\* tick = round(beat * ticksPerQuarter); a time unit is 1/16 beat, so the
\* product is an integer and round changes nothing
TickOf(time) == (time * TicksPerQuarter) \div UnitsPerBeat

\* each scheduled note becomes a note-on at its start tick and a note-off at
\* start + duration
RECURSIVE NoteEntries(_)
NoteEntries(notes) ==
    IF notes = <<>> THEN <<>>
    ELSE LET n == Head(notes)
         IN  << [tick |-> TickOf(n.time), kind |-> "note_on",
                 channel |-> n.channel, data |-> n.note],
                [tick |-> TickOf(n.time + n.duration), kind |-> "note_off",
                 channel |-> n.channel, data |-> n.note] >>
             \o NoteEntries(Tail(notes))

\* time-signature and tempo meta entries at tick 0
MetaEntries ==
    << [tick |-> 0, kind |-> "meta", channel |-> -1, data |-> "time_signature"],
       [tick |-> 0, kind |-> "meta", channel |-> -1, data |-> "tempo"] >>

\* ties at one tick: meta, then note-off, then note-on
KindRank_onfirst(kind) ==
    IF kind = "meta" THEN 0 ELSE IF kind = "note_on" THEN 1 ELSE 2
KindRank(kind) ==
    IF kind = "meta" THEN 0 ELSE IF kind = "note_off" THEN 1 ELSE 2

EntryLeq(a, b) ==
    a.tick < b.tick \/ (a.tick = b.tick /\ KindRank(a.kind) <= KindRank(b.kind))

RECURSIVE InsertEntry(_, _)
InsertEntry(e, s) ==
    IF s = <<>> THEN <<e>>
    ELSE IF EntryLeq(Head(s), e) THEN <<Head(s)>> \o InsertEntry(e, Tail(s))
    ELSE <<e>> \o s

RECURSIVE SortEntries(_)
SortEntries(s) ==
    IF s = <<>> THEN <<>>
    ELSE InsertEntry(s[Len(s)], SortEntries(SubSeq(s, 1, Len(s) - 1)))

\* the sorted entries with an end-of-track meta entry appended
EncodeTrack(notes) ==
    LET sorted_entries == SortEntries(MetaEntries \o NoteEntries(notes))
    IN  Append(sorted_entries,
               [tick |-> sorted_entries[Len(sorted_entries)].tick,
                kind |-> "meta", channel |-> -1, data |-> "end_of_track"])

\* MIDIGenerator.write(output_path): os.makedirs if the path has a directory
\* part, then self.midi.writeFile(f) inside open(output_path, 'wb'); nothing
\* is caught. run.py writes a generator once and then cleans it up.
write(output_path, io_outcome) ==
    LET track == EncodeTrack(midi)
        rec(error, file) ==
            [op |-> "write", output_file |-> output_path,
             io_outcome |-> io_outcome, error |-> error, opens |-> 1,
             report |-> IF error = "none" THEN "returned" ELSE "raised",
             file |-> file]
    IN  /\ out.op = "none"
        /\ out' = IF io_outcome = "open_fails" THEN rec("OSError", out.file)
                  ELSE IF io_outcome = "write_fails"
                  THEN rec("OSError", FileOf(Partial(track)))
                  ELSE rec("none", FileOf(track))
        /\ UNCHANGED <<schedVars, importVars, norm, store, vlq,
                     lateVars>>

Write ==
    \E output_path \in {DirPath, BarePath}, io_outcome \in IoOutcomes :
        write(output_path, io_outcome)

-----------------------------------------------------------------------------
(* Song generation: src/src/midi_generator.py generate_midi.               *)
(* Times and durations of a song count 1/10 of a beat, so the smallest     *)
(* duration 0.1 is 1 and one beat is 10.                                   *)

TenthsPerBeat == 10

NoOut == [op |-> "none", file |-> NoFile]

\* An element of a measure: a single note (a dict) or a chord (a list).
Single(n) == [is_chord |-> FALSE, notes |-> <<n>>]
Chord(ns) == [is_chord |-> TRUE, notes |-> ns]

RECURSIVE MaxOver(_, _)
MaxOver(f, m) == IF f = <<>> THEN m ELSE MaxOver(Tail(f), Max(m, Head(f)))

\* every note of the song, in order (lines 57-63)
SongNotes(measures) ==
    Flatten([i \in 1..Len(measures) |->
                Flatten([j \in 1..Len(measures[i]) |-> measures[i][j].notes])])

max_velocity(measures) ==
    LET ns == SongNotes(measures)
        m == MaxOver([i \in 1..Len(ns) |-> ns[i].velocity], 0)
    IN  IF m = 0 THEN 100 ELSE m

\* max(0, min(127, int(min(100, (velocity / max_velocity) * 100))))
melody_velocity(velocity, maxv) ==
    Clamp127(Min(100, (velocity * 100) \div maxv))

\* lines 76-100: the notes one element adds to track 0, all at `start`
ElementNotes(ns, start, maxv) ==
    [i \in 1..Len(ns) |->
        [pitch |-> Clamp127(ns[i].pitch), time |-> start,
         duration |-> Max(1, ns[i].duration),
         velocity |-> melody_velocity(ns[i].velocity, maxv)]]

\* lines 75-100; an empty chord fails at note_data[0]
RECURSIVE ProcessMeasure(_, _, _)
ProcessMeasure(st, measure, maxv) ==
    IF measure = <<>> \/ st.error # "none" THEN st
    ELSE LET element == Head(measure)
         IN  IF element.notes = <<>>
             THEN [st EXCEPT !.error = "IndexError"]
             ELSE LET start == element.notes[1].start + st.time
                      added == ElementNotes(element.notes, start, maxv)
                      ends == [i \in 1..Len(added) |-> start + added[i].duration]
                  IN  ProcessMeasure(
                          [st EXCEPT !.notes = st.notes \o added,
                                     !.measure_end_time =
                                         MaxOver(ends, st.measure_end_time)],
                          Tail(measure), maxv)

\* lines 70-103
RECURSIVE ProcessMeasures(_, _, _)
ProcessMeasures(st, measures, maxv) ==
    IF measures = <<>> \/ st.error # "none" THEN st
    ELSE LET m == ProcessMeasure([st EXCEPT !.measure_end_time = st.time],
                                 Head(measures), maxv)
         IN  ProcessMeasures([m EXCEPT !.time = m.measure_end_time],
                             Tail(measures), maxv)

\* GenreManager.genres and Genre.get_instrument; 32 for an unknown genre
GenreInstrument(genre) ==
    IF genre = "classical" THEN 32
    ELSE IF genre = "pop" THEN 33
    ELSE IF genre = "jazz" THEN 34
    ELSE 32

\* generate_accompaniment and lines 137-176: two root notes per melody
\* measure, at the start and two beats later, one beat long; a measure of
\* the accompaniment is never empty and ends three beats after it starts.
Accompaniment(measures) ==
    Flatten([i \in 1..Len(measures) |->
        LET time == (i - 1) * 3 * TenthsPerBeat
        IN  << [pitch |-> 48, time |-> time,
                duration |-> TenthsPerBeat, velocity |-> 70],
               [pitch |-> 48, time |-> time + 2 * TenthsPerBeat,
                duration |-> TenthsPerBeat, velocity |-> 70] >>])

Track(name, program, notes) ==
    [name |-> name, program |-> program, notes |-> notes]

\* What MIDIFile(3) holds before line 221, or the exception raised so far.
BuildSong(song_data, accompaniment_style, genre) ==
    IF song_data.falsy \/ ~song_data.has_measures
    THEN [error |-> "ValueError", tracks |-> <<>>]
    ELSE
    LET maxv == max_velocity(song_data.measures)
        melody == ProcessMeasures(
                      [time |-> 0, measure_end_time |-> 0,
                       notes |-> <<>>, error |-> "none"],
                      song_data.measures, maxv)
        accompaniment ==
            IF accompaniment_style # "none"
            THEN Track("Accompaniment", GenreInstrument(genre),
                       Accompaniment(song_data.measures))
            ELSE Track("Accompaniment", -1, <<>>)
        tracks == << Track("Melody", 0, melody.notes),
                     accompaniment, Track("Bass", -1, <<>>) >>
    IN  IF melody.error # "none"
        THEN [error |-> melody.error, tracks |-> <<>>]
        ELSE IF melody.notes = <<>>
        THEN \* lines 106-107: total_notes == 0
             [error |-> "ValueError", tracks |-> <<>>]
        ELSE IF ~song_data.enable_bass
        THEN [error |-> "none", tracks |-> tracks]
        ELSE IF genre # "None" /\ accompaniment_style = "none"
        THEN \* line 185 reads accompaniment_generator, bound only at 113
             [error |-> "UnboundLocalError", tracks |-> <<>>]
        ELSE \* Bass.generate_pattern calls measure.get on a list measure
             [error |-> "AttributeError", tracks |-> <<>>]

\* The least number of bytes midi.writeFile produces for these tracks: a
\* 14-byte header chunk and, per track, an 8-byte chunk header, the track
\* name, time-signature and tempo entries of lines 35-42 (at least 21
\* bytes), two 4-byte entries per note and a 4-byte end of track.
EncodedSize(tracks) ==
    LET RECURSIVE Sum(_)
        Sum(ts) == IF ts = <<>> THEN 0
                   ELSE 8 + 21 + 8 * Len(Head(ts).notes) + 4 + Sum(Tail(ts))
    IN  14 + Sum(tracks)

MinFileSize == 100

\* generate_midi(song_data, output_file, accompaniment_style, genre)
generate_midi(song_data, output_file, accompaniment_style, genre, io_outcome) ==
    LET song == BuildSong(song_data, accompaniment_style, genre)
        rec(error, opens, file) ==
            [op |-> "generate_midi", song_data |-> song_data,
             output_file |-> output_file, style |-> accompaniment_style,
             genre |-> genre, io_outcome |-> io_outcome,
             error |-> error, opens |-> opens,
             report |-> IF error = "none" THEN "returned_path"
                        ELSE "returned_None",
             file |-> file]
    IN  /\ out.op = "none"
        /\ io.op = "none"
        /\ out' =
             IF song.error # "none" THEN rec(song.error, 0, out.file)
             ELSE IF output_file.given /\ ~output_file.dir_exists
             THEN \* open(output_file, 'wb') finds no directory
                  rec("FileNotFoundError", 1, out.file)
             ELSE IF io_outcome = "open_fails"
             THEN rec("OSError", 1, out.file)
             ELSE IF io_outcome = "write_fails"
             THEN rec("OSError", 1, FileOf(Partial(song.tracks)))
             ELSE IF EncodedSize(song.tracks) < MinFileSize
             THEN \* lines 254-256, after the file was written and closed
                  rec("ValueError", 1, FileOf(song.tracks))
             ELSE rec("none", 1, FileOf(song.tracks))
        /\ UNCHANGED <<schedVars, importVars, norm, store, vlq,
                     lateVars>>

(***************************************************************************)
(* src/midi_generator.py MIDIGenerator.create_midi_file                    *)
(***************************************************************************)
\* sort key (x['start'], x['is_chord']) of line 316
NoteKeyLeq(a, b) ==
    a.start < b.start \/ (a.start = b.start /\ (~a.is_chord \/ b.is_chord))

RECURSIVE InsertNote(_, _)
InsertNote(n, s) ==
    IF s = <<>> THEN <<n>>
    ELSE IF NoteKeyLeq(Head(s), n) THEN <<Head(s)>> \o InsertNote(n, Tail(s))
    ELSE <<n>> \o s

\* list.sort is stable
RECURSIVE sort_notes(_)
sort_notes(s) ==
    IF s = <<>> THEN <<>>
    ELSE InsertNote(s[Len(s)], sort_notes(SubSeq(s, 1, Len(s) - 1)))

\* lines 293-311: the notes of a measure, each tagged with is_chord
MeasureNotes(measure) ==
    Flatten([j \in 1..Len(measure) |->
        [k \in 1..Len(measure[j].notes) |->
            [pitch |-> measure[j].notes[k].pitch,
             duration |-> measure[j].notes[k].duration,
             velocity |-> measure[j].notes[k].velocity,
             start |-> measure[j].notes[k].start,
             is_chord |-> measure[j].is_chord]]])

\* lines 313-371: single notes are added when met and a chord when the
\* start time changes or the measure ends; singles sort before chords of
\* the same start, so notes are added in sorted order. A measure is four
\* beats long.
MelodyTrack(measures) ==
    Flatten([i \in 1..Len(measures) |->
        LET ns == sort_notes(MeasureNotes(measures[i]))
            current_time == (i - 1) * 4 * TenthsPerBeat
        IN  [k \in 1..Len(ns) |->
                [pitch |-> Clamp127(ns[k].pitch),
                 time |-> current_time + ns[k].start,
                 duration |-> Max(1, ns[k].duration),
                 velocity |-> Clamp127(ns[k].velocity)]]])

\* lines 374-402
AccompanimentTrack(measures) ==
    Flatten([i \in 1..Len(measures) |->
        LET current_time == (i - 1) * 4 * TenthsPerBeat
        IN  << [pitch |-> 48, time |-> current_time,
                duration |-> TenthsPerBeat, velocity |-> 70],
               [pitch |-> 48, time |-> current_time + 2 * TenthsPerBeat,
                duration |-> TenthsPerBeat, velocity |-> 70] >>])

\* create_midi_file(self, song_data, output_path, ..., enable_accompaniment)
root_create_midi_file(song_data, output_path, enable_accompaniment, io_outcome) ==
    LET tracks ==
            IF enable_accompaniment
            THEN << Track("", -1, MelodyTrack(song_data.measures)),
                    Track("", -1, AccompanimentTrack(song_data.measures)) >>
            ELSE << Track("", -1, MelodyTrack(song_data.measures)) >>
        rec(error, opens, file) ==
            [op |-> "MIDIGenerator.create_midi_file", song_data |-> song_data,
             output_file |-> output_path,
             style |-> IF enable_accompaniment THEN "basic" ELSE "none",
             genre |-> "None", io_outcome |-> io_outcome,
             error |-> error, opens |-> opens,
             report |-> IF error = "none" THEN "returned_True"
                        ELSE "returned_False",
             file |-> file]
    IN  /\ out.op = "none"
        /\ io.op = "none"
        /\ out' =
             IF song_data.falsy
             THEN \* song_data['measures'] on None
                  rec("TypeError", 0, out.file)
             ELSE IF ~song_data.has_measures
             THEN rec("KeyError", 0, out.file)
             ELSE IF ~output_path.dir_exists
             THEN rec("FileNotFoundError", 1, out.file)
             ELSE IF io_outcome = "open_fails"
             THEN rec("OSError", 1, out.file)
             ELSE IF io_outcome = "write_fails"
             THEN rec("OSError", 1, FileOf(Partial(tracks)))
             ELSE rec("none", 1, FileOf(tracks))
        /\ UNCHANGED <<schedVars, importVars, norm, store, vlq,
                     lateVars>>

(***************************************************************************)
(* Inputs of the song generators.                                          *)
(***************************************************************************)
MaxMeasures == 2     \* measures of a song

NoteLoud == [pitch |-> 60, duration |-> 10, start |-> 0, velocity |-> 100]
NoteSoft == [pitch |-> 130, duration |-> 0, start |-> 10, velocity |-> 50]

MeasureInputs ==
    { <<>>,
      <<Single(NoteLoud)>>,
      <<Single(NoteSoft), Single(NoteLoud)>>,
      <<Chord(<<NoteLoud, NoteSoft>>)>>,
      <<Chord(<<>>)>> }

SongOf(measures, enable_bass) ==
    [falsy |-> FALSE, has_measures |-> TRUE, measures |-> measures,
     enable_bass |-> enable_bass]

\* None, a dict without 'measures', and songs of up to MaxMeasures measures
SongDatas ==
    { [falsy |-> TRUE, has_measures |-> FALSE, measures |-> <<>>,
       enable_bass |-> FALSE],
      [falsy |-> FALSE, has_measures |-> FALSE, measures |-> <<>>,
       enable_bass |-> FALSE] }
    \cup { SongOf(m, b) : m \in UNION { [1..n -> MeasureInputs] :
                                         n \in 0..MaxMeasures },
                          b \in BOOLEAN }

\* output_file=None (a fresh name in the package's output directory, which
\* line 225 creates) or a given path whose directory exists or not
OutputFiles ==
    { [given |-> FALSE, dir_exists |-> TRUE],
      [given |-> TRUE, dir_exists |-> TRUE],
      [given |-> TRUE, dir_exists |-> FALSE] }

AccompanimentStyles == {"basic", "none"}
Genres == {"None", "jazz", "folk"}

GenerateMidi ==
    \E song_data \in SongDatas, output_file \in OutputFiles,
       accompaniment_style \in AccompanimentStyles, genre \in Genres,
       io_outcome \in IoOutcomes :
        generate_midi(song_data, output_file, accompaniment_style, genre,
                      io_outcome)

RootCreateMidiFile ==
    \E song_data \in SongDatas,
       output_path \in {f \in OutputFiles : f.given},
       enable_accompaniment \in BOOLEAN, io_outcome \in IoOutcomes :
        root_create_midi_file(song_data, output_path, enable_accompaniment,
                              io_outcome)

\* create_midi_file with and without a directory part, under every answer
\* of the operating system
HexSamples ==
    { <<"0", "0", "F", "F", "2", "F">>,
      HeaderHex \o <<"9", "c", "F", "F">>,
      <<"Z", "Z">> }

CreateMidiFileIO ==
    \E hex_data \in HexSamples, output_path \in {DirPath, BarePath},
       io_outcome \in IoOutcomes :
        /\ out.op = "none"
        /\ create_midi_file(hex_data, output_path, io_outcome)

-----------------------------------------------------------------------------
(* Versioned saves: src/Grok/GrokMidi/midi_generator2.py save_hex_to_midi   *)
(* and get_versioned_filename; midicsvPlug.get_output_filename probes the   *)
(* same names in the same order. Name 0 is the base name and name N > 0 is  *)
(* base_vN. A writer is a process running save_hex_to_midi; each call of    *)
(* os.path.exists and the open-and-write are separate steps of it.          *)

MaxVersion == 2      \* names base, base_v1 .. base_vMaxVersion are probed
MaxSaves == 3        \* saves started on one directory

Writers == {1, 2}
Names == 0..MaxVersion

\* os.path.exists(name)
exists_never(disk, name) == FALSE
exists(disk, name) == disk[name].exists

IdleWriter == [pc |-> "idle", version |-> 0, data |-> <<>>]

\* the text of the input file
HexFiles == { <<"0", "1">>, <<"F", "F", "2", "F">>, <<"Z", "Z">> }

\* lines 44-51: read the input, bytes.fromhex, os.makedirs; a malformed text
\* raises before any name is probed
Begin(w, hex_string) ==
    LET binary_data == fromhex(hex_string) IN
    /\ store.w[w].pc = "idle"
    /\ store.started < MaxSaves
    /\ store' = [store EXCEPT
                   !.started = @ + 1,
                   !.w[w] = IF binary_data.ok
                            THEN [pc |-> "probe", version |-> 0,
                                  data |-> binary_data.bytes]
                            ELSE IdleWriter,
                   !.raised = @ + (IF binary_data.ok THEN 0 ELSE 1)]

\* one os.path.exists of get_versioned_filename: lines 27 and 37
Probe(w) ==
    LET version == store.w[w].version IN
    /\ store.w[w].pc = "probe"
    /\ IF ~exists(store.disk, version)
       THEN store' = [store EXCEPT !.w[w].pc = "write"]
       ELSE /\ version < MaxVersion
            /\ store' = [store EXCEPT !.w[w].version = version + 1]

SavedAs(w, name) ==
    [store EXCEPT
       !.disk[name] = FileOf(store.w[w].data),
       !.w[w] = IdleWriter,
       !.saves = Append(@,
           [writer |-> w, name |-> name, data |-> store.w[w].data,
            replaced |-> store.disk[name],
            lower_taken |-> \A k \in 0..(name - 1) : exists(store.disk, k)])]

\* lines 57-58: open(versioned_midi_file, 'wb') and f.write(binary_data)
WriteFile_base(w) ==
    /\ store.w[w].pc = "write"
    /\ store' = SavedAs(w, 0)
WriteFile(w) ==
    /\ store.w[w].pc = "write"
    /\ store' = SavedAs(w, store.w[w].version)

StoreIdleOthers ==
    UNCHANGED <<schedVars, importVars, out, norm, vlq,
                 lateVars>>

\* saves performed one after another: a save starts when no other is under way
NoSaveUnderWay == \A w \in Writers : store.w[w].pc = "idle"

BeginSequential ==
    /\ NoSaveUnderWay
    /\ \E w \in Writers, h \in HexFiles : Begin(w, h)
    /\ StoreIdleOthers

\* writers running concurrently
BeginConcurrent ==
    /\ \E w \in Writers, h \in HexFiles : Begin(w, h)
    /\ StoreIdleOthers

ProbeStep == (\E w \in Writers : Probe(w)) /\ StoreIdleOthers
WriteStep == (\E w \in Writers : WriteFile(w)) /\ StoreIdleOthers

\* the directory holds any of the names already
StoreInit ==
    \E d \in [Names -> {NoFile, FileOf(OldBytes)}] :
        store = [disk |-> d, initial |-> d,
                 w |-> [w \in Writers |-> IdleWriter],
                 saves |-> <<>>, started |-> 0, raised |-> 0]

-----------------------------------------------------------------------------
(* Time-signature normalizer: src/src/instruments/base.py                  *)
(* BaseInstrument.convert_to_4_4 and src/src/instruments/bass.py           *)
(* Bass.convert_to_4_4, which has the same body. A duration is a rational   *)
(* [num, den] in lowest terms; the float the code computes is the double    *)
(* nearest to the rational product.                                         *)

MaxQuarters == 24    \* longest duration offered, in quarters of a beat

RECURSIVE GCD(_, _)
GCD(a, b) == IF b = 0 THEN a ELSE GCD(b, a % b)

Rat(n, d) == LET g == GCD(n, d) IN [num |-> n \div g, den |-> d \div g]

KnownSignatures == {"3/4", "6/8", "5/4", "7/8", "9/8", "12/8"}

\* self.time_signature_factors
time_signature_factors ==
    [sig \in KnownSignatures |->
        CASE sig = "3/4" -> Rat(3, 4)
          [] sig = "6/8" -> Rat(2, 3)
          [] sig = "5/4" -> Rat(4, 5)
          [] sig = "7/8" -> Rat(4, 7)
          [] sig = "9/8" -> Rat(4, 9)
          [] sig = "12/8" -> Rat(2, 3)]

\* convert_to_4_4(self, duration, original_time_sig)
convert_to_4_4_same(factors, duration, original_time_sig) == duration
convert_to_4_4(factors, duration, original_time_sig) ==
    IF original_time_sig \in DOMAIN factors
    THEN Rat(duration.num * factors[original_time_sig].num,
             duration.den * factors[original_time_sig].den)
    ELSE duration

InstrumentClasses == {"BaseInstrument", "Bass"}
Signatures == KnownSignatures \cup {"4/4", "2/4", "swing"}
Durations == { Rat(q, 4) : q \in 0..MaxQuarters }

ConvertTo44 ==
    \E cls \in InstrumentClasses, duration \in Durations,
       original_time_sig \in Signatures :
        /\ norm' = [op |-> "convert_to_4_4", cls |-> cls,
                    factors |-> norm.factors,
                    duration |-> duration,
                    original_time_sig |-> original_time_sig,
                    result |-> convert_to_4_4(norm.factors, duration,
                                              original_time_sig)]
        /\ UNCHANGED <<schedVars, importVars, out, store, vlq,
                 lateVars>>

\* an instrument after __init__
NormInit == norm = [op |-> "none", factors |-> time_signature_factors]

-----------------------------------------------------------------------------
(* Delta-time codec of the encoder, which is not part of the sources:       *)
(* modelled from the specification (variable-length quantity: 7 bits per    *)
(* byte, most significant group first, continuation bit on every byte but   *)
(* the last).                                                               *)

MaxProbe == 16       \* values probed on each side of a length boundary

VlqBits == 28
RECURSIVE Pow2(_)
Pow2(k) == IF k = 0 THEN 1 ELSE 2 * Pow2(k - 1)

\* the 7-bit groups of n, most significant first
RECURSIVE Groups(_)
Groups(n) == IF n < 128 THEN <<n>> ELSE Groups(n \div 128) \o <<n % 128>>

encodeVLQ_padded(n) ==
    << 128 + ((n \div 2097152) % 128), 128 + ((n \div 16384) % 128),
       128 + ((n \div 128) % 128), n % 128 >>
encodeVLQ(n) ==
    LET g == Groups(n)
    IN  [i \in 1..Len(g) |-> IF i < Len(g) THEN g[i] + 128 ELSE g[i]]

\* reads bytes up to and including the first one without continuation bit
RECURSIVE DecodeFrom(_, _)
DecodeFrom(bytes, value) ==
    IF bytes = <<>> THEN [ok |-> FALSE, value |-> value]
    ELSE LET v == value * 128 + (Head(bytes) % 128)
         IN  IF Head(bytes) < 128 THEN [ok |-> TRUE, value |-> v]
             ELSE DecodeFrom(Tail(bytes), v)

decodeVLQ(bytes) == DecodeFrom(bytes, 0)

\* values at both ends of the range and around each length boundary
VlqValues ==
    { n \in UNION { (Pow2(k) - MaxProbe)..(Pow2(k) + MaxProbe) :
                    k \in {0, 7, 14, 21, VlqBits} } :
        n >= 0 /\ n < Pow2(VlqBits) }

EncodeDecode ==
    \E n \in VlqValues :
        /\ vlq' = [op |-> "roundtrip", n |-> n, bytes |-> encodeVLQ(n),
                   decoded |-> decodeVLQ(encodeVLQ(n))]
        /\ UNCHANGED <<schedVars, importVars, out, norm, store,
                 lateVars>>

-----------------------------------------------------------------------------
(* Two MIDIGenerator instances used side by side. Objects live on a heap:   *)
(* heap.lists holds the lists created by [0.0] * 16 and heap.files the note *)
(* lists of the MIDIFile objects; an instance holds references into them.   *)
(* MIDI_PROGRAMS and DRUM_NOTES are class attributes that are only read.    *)

MaxPairNotes == 2    \* notes scheduled on each of the two instances

GeneratorIds == {1, 2}

\* a reference to a newly created object
NewRef_first(objects) == 1
NewRef(objects) == Len(objects) + 1

\* MIDIGenerator.__init__(tempo, time_signature) for instance g
construct(st, g, time_signature) ==
    [heap |-> [lists |-> Append(st.heap.lists,
                                [c \in 0..(NumChannels - 1) |-> 0]),
               files |-> Append(st.heap.files, <<>>)],
     inst |-> [st.inst EXCEPT ![g] =
                  [original_time_signature |-> time_signature,
                   last_note_time |-> NewRef(st.heap.lists),
                   midi |-> NewRef(st.heap.files),
                   written |-> FALSE,
                   \* the same instance run alone
                   alone |-> [midi |-> <<>>,
                              last |-> [c \in 0..(NumChannels - 1) |-> 0]]]]]

NoGenerators ==
    [heap |-> [lists |-> <<>>, files |-> <<>>],
     inst |-> [g \in GeneratorIds |-> [written |-> FALSE]]]

\* the events and patterns offered to the two instances
PairEvents == { <<60, 0, 16>>, <<67, 2, 1, 100>> }
PairPatterns == UNION { [1..n -> PairEvents] : n \in 0..MaxPatLen }

\* add_pattern on instance g
pair_add_pattern(g, instrument, pattern, start_time) ==
    LET me == gens.inst[g]
        st == ProcessAll([midi |-> gens.heap.files[me.midi],
                          last |-> gens.heap.lists[me.last_note_time]],
                         instrument, sorted(pattern), start_time,
                         me.original_time_signature)
        alone == ProcessAll(me.alone, instrument, sorted(pattern), start_time,
                            me.original_time_signature)
    IN  /\ ~me.written
        /\ Len(me.alone.midi) + NumParsed(pattern) <= MaxPairNotes
        /\ gens' = IF pattern = <<>> THEN gens
                   ELSE [gens EXCEPT
                           !.heap.files[me.midi] = st.midi,
                           !.heap.lists[me.last_note_time] = st.last,
                           !.inst[g].alone = alone]

\* write on instance g
pair_write(g) ==
    /\ ~gens.inst[g].written
    /\ gens' = [gens EXCEPT !.inst[g].written = TRUE]

PairOthers ==
    UNCHANGED <<schedVars, importVars, out, norm, store, vlq,
                drums, bass, render, cache>>

PairAddPattern ==
    /\ \E g \in GeneratorIds, instrument \in Instruments,
          pattern \in PairPatterns :
           pair_add_pattern(g, instrument, pattern, 0)
    /\ PairOthers

PairWrite == (\E g \in GeneratorIds : pair_write(g)) /\ PairOthers

PairInit ==
    \E s1 \in TimeSignatures, s2 \in TimeSignatures :
        gens = construct(construct(NoGenerators, 1, s1), 2, s2)

-----------------------------------------------------------------------------
(* Drum patterns: src/src/instruments/drums.py.  A configuration gives the *)
(* beats of the kick and of the snare, the hi-hat subdivision and the      *)
(* three velocities.  Start times are in quarters of a beat.               *)

Config(kick, snare, hihat, vk, vs, vh) ==
    [kick |-> kick, snare |-> snare, hihat |-> hihat,
     velocity |-> [kick |-> vk, snare |-> vs, hihat |-> vh]]

drum_map == [kick |-> 36, snare |-> 38, hihat |-> 42]

\* genre |-> <<base, variations[0], variations[1]>>
genre_patterns ==
    [rock |-> << Config({0, 2}, {1, 3}, "eighth", 100, 90, 70),
                 Config({0, 1, 2}, {1, 3}, "eighth", 95, 90, 70),
                 Config({0, 2, 3}, {1, 3}, "eighth", 100, 85, 75) >>,
     jazz |-> << Config({0, 1, 2, 3}, {1, 3}, "sixteenth", 85, 80, 65),
                 Config({0, 1, 2, 3}, {1, 2, 3}, "sixteenth", 80, 75, 60),
                 Config({0, 1, 2, 3}, {1, 3}, "sixteenth", 90, 85, 70) >>,
     funk |-> << Config({0, 1, 2, 3}, {1, 3}, "sixteenth", 95, 85, 75),
                 Config({0, 1, 2, 3}, {1, 2, 3}, "sixteenth", 100, 90, 80),
                 Config({0, 1, 2, 3}, {1, 3}, "sixteenth", 90, 80, 70) >>,
     classical |-> << Config({0, 2}, {1, 3}, "quarter", 80, 75, 60),
                      Config({0, 2}, {1, 3}, "eighth", 75, 70, 55),
                      Config({0, 2}, {1, 3}, "quarter", 85, 80, 65) >>]

DrumGenres == DOMAIN genre_patterns

\* self.genre_patterns.get(genre, self.genre_patterns['rock'])
genre_data(genre) ==
    IF genre \in DrumGenres THEN genre_patterns[genre]
    ELSE genre_patterns["rock"]

\* utils.normalize_velocity and the range clamp of get_note_adjustments
normalize_velocity(velocity) ==
    IF velocity < 30 THEN 30 ELSE IF velocity > 120 THEN 120 ELSE velocity

subdivisions(hihat) ==
    IF hihat = "eighth" THEN 2 ELSE IF hihat = "sixteenth" THEN 4 ELSE 1

DrumNote(drum, start, pattern_config) ==
    [pitch |-> drum_map[drum], start |-> start,
     velocity |-> normalize_velocity(pattern_config.velocity[drum])]

\* The notes of one beat: kick, snare, then the hi-hat subdivisions.
BeatNotes(position, pattern_config) ==
    LET n == subdivisions(pattern_config.hihat)
    IN  (IF position \in pattern_config.kick
         THEN << DrumNote("kick", 4 * position, pattern_config) >>
         ELSE << >>)
        \o (IF position \in pattern_config.snare
            THEN << DrumNote("snare", 4 * position, pattern_config) >>
            ELSE << >>)
        \o [sub \in 1..n |->
              DrumNote("hihat", 4 * position + (4 \div n) * (sub - 1),
                       pattern_config)]

\* One measure without 'beats': the four default beats of the loop.
MeasurePattern(pattern_config) ==
    BeatNotes(0, pattern_config) \o BeatNotes(1, pattern_config)
    \o BeatNotes(2, pattern_config) \o BeatNotes(3, pattern_config)

NoVariation == 0 - 1      \* variation=None
Variations == {NoVariation, 0, 1, 2}
GenreArgs == DrumGenres \cup {"None"}

\* Drums(): current_song_variation = None is the empty sequence.
NewDrums == [op |-> "init", current_song_variation |-> << >>]

\* Drums.generate_pattern(song_data, genre=genre, variation=variation,
\* is_new_song=is_new_song) on a one-measure song; choice is the index
\* random.choice draws from all_patterns.
generate_pattern(genre, variation, is_new_song, choice) ==
    LET all_patterns == genre_data(genre)
        current == IF is_new_song \/ drums.current_song_variation = << >>
                   THEN << all_patterns[choice] >>
                   ELSE drums.current_song_variation
        pattern_config == current[1]
    IN  drums' = [op |-> "generate_pattern",
                  genre |-> genre, variation |-> variation,
                  is_new_song |-> is_new_song,
                  current_song_variation |-> current,
                  pattern |-> MeasurePattern(pattern_config)]

DrumOthers ==
    UNCHANGED <<schedVars, importVars, out, norm, store, vlq,
                gens, bass, render, cache>>

GeneratePattern ==
    /\ \E genre \in GenreArgs, variation \in Variations,
          is_new_song \in BOOLEAN, choice \in 1..3 :
           generate_pattern(genre, variation, is_new_song, choice)
    /\ DrumOthers

-----------------------------------------------------------------------------
(* Bass patterns: src/src/instruments/bass.py.  Songs are in 4/4, so       *)
(* convert_to_4_4 leaves times alone; times are whole beats.               *)

MaxBassMeasures == 2

\* self.patterns: the style names the class registers
BassStyles == {"walking", "rock", "funk", "jazz", "pop"}
StyleArgs == BassStyles \cup {"invalid_style", "None"}

\* the three variations random.choice draws from
BassVariations ==
    << [style |-> "root", rhythm |-> "quarter", velocity |-> 90],
       [style |-> "walking", rhythm |-> "eighth", velocity |-> 85],
       [style |-> "groove", rhythm |-> "sixteenth", velocity |-> 80] >>

BassChord == [root |-> 36, type |-> "major", start |-> 0, duration |-> 4]
BassMelodyNote == [pitch |-> 60, start |-> 0, duration |-> 1, velocity |-> 100]
BassMeasureKinds ==
    { [chords |-> << >>, melody |-> << >>],
      [chords |-> << BassChord >>, melody |-> << >>],
      [chords |-> << >>, melody |-> << BassMelodyNote >>] }
BassSongs == UNION { [1..n -> BassMeasureKinds] : n \in 0..MaxBassMeasures }

\* get_note_adjustments: pitch into get_playable_range() = (24, 55),
\* velocity into velocity_range = (30, 120)
BassAdjust(pitch, start, duration, velocity) ==
    [pitch |-> IF pitch < 24 THEN 24 ELSE IF pitch > 55 THEN 55 ELSE pitch,
     start |-> start, duration |-> duration,
     velocity |-> normalize_velocity(normalize_velocity(velocity))]

\* The chord branch of one chord: only the 'root' variation is complete;
\* the other two call self.get_chord_notes, which Bass does not define.
ChordNotes(chord, current_time, pattern_config) ==
    IF pattern_config.style = "root"
    THEN [raised |-> "None",
          notes |-> << BassAdjust(chord.root, current_time + chord.start,
                                  chord.duration, pattern_config.velocity) >>]
    ELSE [raised |-> "AttributeError", notes |-> << >>]

MelodyNotes(melody, current_time) ==
    [i \in 1..Len(melody) |->
        BassAdjust(melody[i].pitch, current_time + melody[i].start,
                   melody[i].duration, melody[i].velocity)]

\* The loop over the measures from measure i on; a measure with neither
\* chords nor melody is skipped before current_time advances.
RECURSIVE BassMeasures(_, _, _, _, _)
BassMeasures(measures, i, current_time, pattern_config, pattern) ==
    IF i > Len(measures) THEN [raised |-> "None", pattern |-> pattern]
    ELSE LET measure == measures[i]
         IN  IF measure.chords = << >> /\ measure.melody = << >>
             THEN BassMeasures(measures, i + 1, current_time,
                               pattern_config, pattern)
             ELSE LET c == IF measure.chords = << >>
                           THEN [raised |-> "None", notes |-> << >>]
                           ELSE ChordNotes(measure.chords[1], current_time,
                                           pattern_config)
                  IN  IF c.raised # "None"
                      THEN [raised |-> c.raised, pattern |-> << >>]
                      ELSE BassMeasures(measures, i + 1, current_time + 4,
                               pattern_config,
                               pattern \o c.notes
                               \o MelodyNotes(measure.melody, current_time))

NewBass == [op |-> "init", current_song_variation |-> << >>]

\* Bass.generate_pattern(song_data, style, is_new_song=is_new_song); style
\* reaches get_note_adjustments only, which does not read it.
bass_generate_pattern(measures, style, is_new_song, choice) ==
    LET current == IF is_new_song \/ bass.current_song_variation = << >>
                   THEN << BassVariations[choice] >>
                   ELSE bass.current_song_variation
        r == BassMeasures(measures, 1, 0, current[1], << >>)
    IN  bass' = [op |-> "generate_pattern", style |-> style,
                 measures |-> measures,
                 current_song_variation |-> current,
                 raised |-> r.raised, pattern |-> r.pattern]

BassOthers ==
    UNCHANGED <<schedVars, importVars, out, norm, store, vlq,
                gens, drums, render, cache>>

BassGeneratePattern ==
    /\ \E measures \in BassSongs, style \in StyleArgs,
          is_new_song \in BOOLEAN, choice \in 1..3 :
           bass_generate_pattern(measures, style, is_new_song, choice)
    /\ BassOthers

-----------------------------------------------------------------------------
(* The two conversions side by side: MIDIGenerator._convert_time_to_44 of  *)
(* src/src/core/midi_generator.py, on a generator built with the tuple of  *)
(* a signature, and BaseInstrument.convert_to_4_4 on the signature's name. *)
(* A time is a number of 1/16 beats, as in the scheduler.                  *)

MaxConvUnits == 16    \* longest time converted, in 1/16 beats

\* the (numerator, denominator) tuple of a signature name
SignatureTuple(name) ==
    CASE name = "3/4" -> <<3, 4>>
      [] name = "6/8" -> <<6, 8>>
      [] name = "5/4" -> <<5, 4>>
      [] name = "7/8" -> <<7, 8>>
      [] name = "9/8" -> <<9, 8>>
      [] name = "12/8" -> <<12, 8>>
      [] name = "4/4" -> <<4, 4>>

TableSignatures == KnownSignatures \cup {"4/4"}

ConvertBoth ==
    \E original_time_sig \in TableSignatures, time \in 0..MaxConvUnits :
        /\ norm' = [op |-> "both", factors |-> norm.factors,
                    original_time_sig |-> original_time_sig,
                    time |-> time,
                    scheduler |->
                        Rat(convert_time_to_44(
                                SignatureTuple(original_time_sig), time),
                            UnitsPerBeat),
                    normalizer |->
                        convert_to_4_4(norm.factors, Rat(time, UnitsPerBeat),
                                       original_time_sig)]
        /\ UNCHANGED <<schedVars, importVars, out, store, vlq, lateVars>>

-----------------------------------------------------------------------------
(* Track offsets in generate_midi of src/src/midi_generator.py: the value  *)
(* of `time` each measure of the melody (lines 70-103) and each measure of *)
(* the accompaniment (lines 137-176) is laid out from.  Tenths of a beat.  *)

NoteDotted == [pitch |-> 62, duration |-> 30, start |-> 0, velocity |-> 90]

RenderMeasures == MeasureInputs \cup { <<Single(NoteDotted)>> }
RenderSongs == UNION { [1..n -> RenderMeasures] : n \in 0..MaxMeasures }

\* `time` at the top of the melody loop body for measure k
MelodyOffset(measures, k) ==
    ProcessMeasures([time |-> 0, measure_end_time |-> 0,
                     notes |-> <<>>, error |-> "none"],
                    SubSeq(measures, 1, k - 1),
                    max_velocity(measures)).time

\* AccompanimentGenerator.generate_accompaniment: per melody measure, a
\* root note at the start and one two beats later, each one beat long
generate_accompaniment(measures) ==
    [i \in 1..Len(measures) |->
        << [pitch |-> 48, duration |-> TenthsPerBeat, start |-> 0,
            velocity |-> 70],
           [pitch |-> 48, duration |-> TenthsPerBeat,
            start |-> 2 * TenthsPerBeat, velocity |-> 70] >>]

\* the melody measure's own extent, used for an empty accompaniment measure
MeasureDuration(melody_measure) ==
    LET ns == Flatten([j \in 1..Len(melody_measure) |->
                          melody_measure[j].notes])
    IN  MaxOver([i \in 1..Len(ns) |-> ns[i].start + ns[i].duration], 0)

\* lines 137-176: `time` after the accompaniment measures 1..k
RECURSIVE AccompanimentTime(_, _, _)
AccompanimentTime(accompaniment, measures, k) ==
    IF k = 0 THEN 0
    ELSE LET time == AccompanimentTime(accompaniment, measures, k - 1)
             measure == accompaniment[k]
         IN  IF measure = <<>>
             THEN IF k <= Len(measures)
                  THEN time + MeasureDuration(measures[k])
                  ELSE time + 4 * TenthsPerBeat
             ELSE MaxOver([i \in 1..Len(measure) |->
                              measure[i].start + time
                              + Max(1, measure[i].duration)], time)

AccompanimentOffset(accompaniment, measures, k) ==
    AccompanimentTime(accompaniment, measures, k - 1)

\* generate_midi up to line 176, keeping the offsets of both loops
render_tracks(measures, accompaniment_style, genre) ==
    LET built == BuildSong(SongOf(measures, FALSE), accompaniment_style,
                           genre)
        accompaniment == generate_accompaniment(measures)
    IN  render' =
          [op |-> "generate_midi", measures |-> measures,
           accompaniment_style |-> accompaniment_style,
           genre |-> genre, error |-> built.error,
           melody_offsets |->
               IF built.error # "none" THEN <<>>
               ELSE [k \in 1..Len(measures) |-> MelodyOffset(measures, k)],
           accompaniment_offsets |->
               IF built.error # "none" \/ accompaniment_style = "none"
               THEN <<>>
               ELSE [k \in 1..Len(accompaniment) |->
                        AccompanimentOffset(accompaniment, measures, k)]]

RenderTracks ==
    /\ \E measures \in RenderSongs,
          accompaniment_style \in AccompanimentStyles, genre \in Genres :
           render_tracks(measures, accompaniment_style, genre)
    /\ UNCHANGED <<schedVars, importVars, out, norm, store, vlq,
                   gens, drums, bass, cache>>

-----------------------------------------------------------------------------
(* Pattern cache: src/Old/src/patterns/pattern_manager.py.  The dict       *)
(* _pattern_cache is a sequence of entries in insertion order; a cache key *)
(* f"{instrument}_{genre}" is the pair, the names offered having no '_'.   *)

MaxCacheSize == 2

CacheInstruments == {"piano", "Piano", "bass", "drums"}
CacheGenres == {"rock", "jazz", "folk"}

\* instrument.lower()
lower(instrument) == IF instrument = "Piano" THEN "piano" ELSE instrument

\* the pattern files under instrument_patterns and the genres they hold
PatternFiles == {"piano", "bass"}
FileGenres == {"rock", "jazz"}

NoPattern == [title |-> "None", genre |-> "None"]

\* _parse_pattern_file(pattern_file, genre): the genre's pattern or None
parse_pattern_file(pattern_file, target_genre) ==
    IF target_genre \in FileGenres
    THEN [title |-> pattern_file, genre |-> target_genre]
    ELSE NoPattern

CacheKeys(pattern_cache) ==
    { pattern_cache[i].key : i \in 1..Len(pattern_cache) }

Cached(pattern_cache, cache_key) ==
    pattern_cache[CHOOSE i \in 1..Len(pattern_cache) :
                     pattern_cache[i].key = cache_key].pattern

\* next(iter(self._pattern_cache)): position of the first key
oldest_last(pattern_cache) == Len(pattern_cache)
oldest(pattern_cache) == 1

\* dict.pop(key) of the entry at position i
Pop(pattern_cache, i) ==
    SubSeq(pattern_cache, 1, i - 1)
    \o SubSeq(pattern_cache, i + 1, Len(pattern_cache))

\* PatternManager(cache_size)
NewManager(cache_size) ==
    [op |-> "init", cache_size |-> cache_size, pattern_cache |-> << >>]

\* get_pattern(instrument, genre)
get_pattern(instrument, genre) ==
    LET cache_key == <<instrument, genre>>
        pattern_file == lower(instrument)
        pattern == parse_pattern_file(pattern_file, genre)
        full == Len(cache.pattern_cache) >= cache.cache_size
        kept == IF full
                THEN Pop(cache.pattern_cache, oldest(cache.pattern_cache))
                ELSE cache.pattern_cache
        rec(result, evicted, pattern_cache) ==
            [op |-> "get_pattern", cache_size |-> cache.cache_size,
             cache_key |-> cache_key, result |-> result,
             evicted |-> evicted, pattern_cache |-> pattern_cache]
    IN  cache' =
          IF cache_key \in CacheKeys(cache.pattern_cache)
          THEN rec(Cached(cache.pattern_cache, cache_key), << >>,
                   cache.pattern_cache)
          ELSE IF pattern_file \notin PatternFiles
          THEN rec(NoPattern, << >>, cache.pattern_cache)
          ELSE IF pattern = NoPattern
          THEN rec(NoPattern, << >>, cache.pattern_cache)
          ELSE rec(pattern,
                   IF full
                   THEN << cache.pattern_cache[
                              oldest(cache.pattern_cache)].key >>
                   ELSE << >>,
                   Append(kept, [key |-> cache_key, pattern |-> pattern]))

\* cleanup()
cleanup ==
    cache' = [op |-> "cleanup", cache_size |-> cache.cache_size,
              pattern_cache |-> << >>]

CacheOthers ==
    UNCHANGED <<schedVars, importVars, out, norm, store, vlq,
                gens, drums, bass, render>>

GetPattern ==
    /\ \E instrument \in CacheInstruments, genre \in CacheGenres :
           get_pattern(instrument, genre)
    /\ CacheOthers

Cleanup == cache.op # "init" /\ cleanup /\ CacheOthers

-----------------------------------------------------------------------------
(* Specifications.                                                         *)

ImportIdle ==
    /\ fs = [dir |-> FALSE, mid |-> NoFile, txt |-> NoFile]
    /\ io = [op |-> "none"]

SchedIdle ==
    /\ original_time_signature = <<4, 4>>
    /\ last_note_time = [c \in 0..(NumChannels - 1) |-> 0]
    /\ midi = <<>>
    /\ offered = 0

ImportInit ==
    /\ fs \in InitialFs
    /\ io = [op |-> "none"]

LateIdle ==
    /\ gens = [op |-> "none"]
    /\ drums = [op |-> "none"]
    /\ bass = [op |-> "none"]
    /\ render = [op |-> "none"]
    /\ cache = [op |-> "none"]

OtherIdle ==
    /\ LateIdle
    /\ norm = [op |-> "none"]
    /\ store = [op |-> "none"]
    /\ vlq = [op |-> "none"]

\* the scheduler
Init == SchedInit /\ ImportIdle /\ out = NoOut /\ OtherIdle
Next == AddPattern \/ Write
Spec == Init /\ [][Next]_vars

\* the import
InitImport == SchedIdle /\ ImportInit /\ out = NoOut /\ OtherIdle
NextImport == CreateMidiFile
SpecImport == InitImport /\ [][NextImport]_vars

\* the output operations, each called once on a fresh process
InitOutput == SchedIdle /\ ImportInit /\ out = NoOut /\ OtherIdle
NextOutput == GenerateMidi \/ RootCreateMidiFile \/ CreateMidiFileIO
SpecOutput == InitOutput /\ [][NextOutput]_vars

StoreOthersIdle ==
    /\ SchedIdle /\ ImportIdle /\ out = NoOut /\ LateIdle
    /\ norm = [op |-> "none"] /\ vlq = [op |-> "none"]

\* versioned saves, one after another
InitSave == StoreOthersIdle /\ StoreInit
NextSave == BeginSequential \/ ProbeStep \/ WriteStep
SpecSave == InitSave /\ [][NextSave]_vars

\* versioned saves by concurrent writers
InitRace == StoreOthersIdle /\ StoreInit
NextRace == BeginConcurrent \/ ProbeStep \/ WriteStep
SpecRace == InitRace /\ [][NextRace]_vars

\* the time-signature normalizer
InitNorm ==
    /\ SchedIdle /\ ImportIdle /\ out = NoOut /\ LateIdle
    /\ store = [op |-> "none"] /\ vlq = [op |-> "none"]
    /\ NormInit
NextNorm == ConvertTo44
SpecNorm == InitNorm /\ [][NextNorm]_vars

\* the delta-time codec
InitVlq ==
    /\ SchedIdle /\ ImportIdle /\ out = NoOut /\ LateIdle
    /\ norm = [op |-> "none"] /\ store = [op |-> "none"]
    /\ vlq = [op |-> "none"]
NextVlq == EncodeDecode
SpecVlq == InitVlq /\ [][NextVlq]_vars

\* two generator instances
InitPair ==
    /\ SchedIdle /\ ImportIdle /\ out = NoOut
    /\ norm = [op |-> "none"] /\ store = [op |-> "none"]
    /\ vlq = [op |-> "none"]
    /\ drums = [op |-> "none"] /\ bass = [op |-> "none"]
    /\ render = [op |-> "none"] /\ cache = [op |-> "none"]
    /\ PairInit
NextPair == PairAddPattern \/ PairWrite
SpecPair == InitPair /\ [][NextPair]_vars
InitDrums ==
    /\ SchedIdle /\ ImportIdle /\ out = NoOut
    /\ norm = [op |-> "none"] /\ store = [op |-> "none"]
    /\ vlq = [op |-> "none"] /\ gens = [op |-> "none"]
    /\ bass = [op |-> "none"]
    /\ render = [op |-> "none"] /\ cache = [op |-> "none"]
    /\ drums = NewDrums
NextDrums == GeneratePattern
SpecDrums == InitDrums /\ [][NextDrums]_vars
InitBass ==
    /\ SchedIdle /\ ImportIdle /\ out = NoOut
    /\ norm = [op |-> "none"] /\ store = [op |-> "none"]
    /\ vlq = [op |-> "none"] /\ gens = [op |-> "none"]
    /\ drums = [op |-> "none"]
    /\ render = [op |-> "none"] /\ cache = [op |-> "none"]
    /\ bass = NewBass
NextBass == BassGeneratePattern
SpecBass == InitBass /\ [][NextBass]_vars
InitConv ==
    /\ SchedIdle /\ ImportIdle /\ out = NoOut /\ LateIdle
    /\ store = [op |-> "none"] /\ vlq = [op |-> "none"]
    /\ NormInit
NextConv == ConvertBoth
SpecConv == InitConv /\ [][NextConv]_vars
InitRender ==
    /\ SchedIdle /\ ImportIdle /\ out = NoOut
    /\ norm = [op |-> "none"] /\ store = [op |-> "none"]
    /\ vlq = [op |-> "none"] /\ gens = [op |-> "none"]
    /\ drums = [op |-> "none"] /\ bass = [op |-> "none"]
    /\ cache = [op |-> "none"]
    /\ render = [op |-> "none"]
NextRender == RenderTracks
SpecRender == InitRender /\ [][NextRender]_vars
InitCache ==
    /\ SchedIdle /\ ImportIdle /\ out = NoOut
    /\ norm = [op |-> "none"] /\ store = [op |-> "none"]
    /\ vlq = [op |-> "none"] /\ gens = [op |-> "none"]
    /\ drums = [op |-> "none"] /\ bass = [op |-> "none"]
    /\ render = [op |-> "none"]
    /\ \E cache_size \in 1..MaxCacheSize : cache = NewManager(cache_size)
NextCache == GetPattern \/ Cleanup
SpecCache == InitCache /\ [][NextCache]_vars






-----------------------------------------------------------------------------
(* Properties of the scheduler, checked under Spec.                        *)

Notes == 1..Len(midi)
Melodic(i) == midi[i].channel # DrumChannel
End(i) == midi[i].time + midi[i].duration
Overlap(i, j) == midi[i].time < End(j) /\ midi[j].time < End(i)

\* the notes of the same channel scheduled before note i
Earlier(i) == {j \in 1..(i - 1) : midi[j].channel = midi[i].channel}
LastOf(S) == CHOOSE j \in S : \A k \in S : k <= j
\* end of the latest note scheduled on channel c, 0 when there is none
LastEndOn(c) ==
    LET S == {j \in Notes : midi[j].channel = c}
    IN  IF S = {} THEN 0 ELSE End(LastOf(S))

\* C1: on every channel other than the percussion channel, any two scheduled
\* notes have non-overlapping half-open intervals [start, start + duration).
C1_NoOverlapMelodic ==
    \A i, j \in Notes :
        (i # j /\ Melodic(i) /\ midi[i].channel = midi[j].channel)
            => ~Overlap(i, j)

\* Two notes of one melodic channel whose own quantized intervals overlapped.
C1_Witness ==
    \E i, j \in Notes :
        /\ i < j /\ Melodic(i) /\ midi[i].channel = midi[j].channel
        /\ midi[i].duration > 0 /\ midi[j].duration > 0
        /\ midi[j].quantized_start < End(i)
        /\ midi[j].time = End(i)

\* C2: on the percussion channel no forward push is applied: the scheduled
\* start of every event is its own quantized start, so percussion events of
\* equal quantized start are scheduled at that same start.
C2_PercussionNoPush ==
    \A i \in Notes :
        midi[i].channel = DrumChannel => midi[i].time = midi[i].quantized_start

\* C3: on a melodic channel the scheduled start is max(quantized start,
\* lastEnd[channel]) with lastEnd initially 0, lastEnd[channel] becomes
\* scheduled start + duration, and (60, 0.0, 1.0), (67, 0.0, 1.0) on channel 0
\* are scheduled as (60, 0, 1.0) then (67, 1.0, 1.0).
C3_Scenario ==
    /\ original_time_signature = <<4, 4>>
    /\ Len(midi) = 2
    /\ midi[1].event = <<60, 0, 16>> /\ midi[2].event = <<67, 0, 16>>
    /\ \A i \in Notes : midi[i].instrument = Piano /\ midi[i].start_time = 0

C3_MelodicPush ==
    /\ \A i \in Notes :
          Melodic(i) =>
            midi[i].time =
                Max(midi[i].quantized_start,
                    IF Earlier(i) = {} THEN 0 ELSE End(LastOf(Earlier(i))))
    /\ \A c \in 0..(NumChannels - 1) :
          c # DrumChannel => last_note_time[c] = LastEndOn(c)
    /\ C3_Scenario =>
          /\ midi[1].channel = 0 /\ midi[1].note = 60
          /\ midi[1].time = 0 /\ midi[1].duration = 16
          /\ midi[2].channel = 0 /\ midi[2].note = 67
          /\ midi[2].time = 16 /\ midi[2].duration = 16

C3_Witness == C3_Scenario /\ midi[2].time = 16 /\ last_note_time[0] = 32

\* C6: every scheduled note has a quantized duration of at least one
\* quantization step (strictly positive); events whose duration quantizes to
\* zero or less never reach the encoder.
C6_PositiveDuration ==
    \A i \in Notes : midi[i].duration >= 4 /\ midi[i].duration > 0

\* C7 as stated: every start is quantized round-half-up,
\* quantize(t) = floor(4t + 1/2) / 4 for t >= 0.
C7_RoundHalfUp ==
    \A i \in Notes :
        midi[i].converted_time >= 0 =>
            midi[i].quantized_start = 4 * ((midi[i].converted_time + 2) \div 4)

Dist(a, b) == IF a >= b THEN a - b ELSE b - a

\* C7 amended: every start is quantized to the nearest grid point, and a
\* start exactly halfway between two grid points goes to the one whose grid
\* index is even (round-half-to-even).
C7_RoundHalfEven ==
    \A i \in Notes :
        LET q == midi[i].quantized_start
            t == midi[i].converted_time
        IN  /\ q % 4 = 0
            /\ Dist(q, t) <= 2
            /\ Dist(q, t) = 2 => (q \div 4) % 2 = 0

\* A start halfway between two grid points that moved to the earlier one.
C7_Witness ==
    \E i \in Notes :
        /\ midi[i].converted_time % 4 = 2
        /\ midi[i].quantized_start = midi[i].converted_time - 2

InRange(v) == v \in 0..127
Nearest(v) == IF v < 0 THEN 0 ELSE IF v > 127 THEN 127 ELSE v
GivenVelocity(event) == IF Len(event) > 3 THEN event[4] ELSE DefaultVelocity

\* C12: an event whose pitch or velocity lies outside [0,127] does not abort
\* scheduling: every note event handed to add_pattern is emitted, the
\* out-of-range value clamped to the nearest bound of [0,127] and an in-range
\* value unchanged.
C12_ClampedNotDropped ==
    /\ Len(midi) = offered
    /\ \A i \in Notes :
          /\ midi[i].note = Nearest(midi[i].event[1])
          /\ midi[i].velocity = Nearest(GivenVelocity(midi[i].event))
          /\ InRange(midi[i].note) /\ InRange(midi[i].velocity)

\* an out-of-range event was clamped at both bounds and the event offered
\* with it was scheduled too, unchanged
C12_Witness ==
    /\ Len(midi) = 2 /\ offered = 2
    /\ \E i \in Notes, j \in Notes :
          /\ midi[i].event[1] > 127 /\ midi[i].note = 127
          /\ GivenVelocity(midi[i].event) < 0 /\ midi[i].velocity = 0
          /\ InRange(midi[j].event[1]) /\ midi[j].note = midi[j].event[1]
          /\ midi[j].velocity = GivenVelocity(midi[j].event)

Wrote == out.op = "write" /\ out.error = "none"
Entries == 1..Len(out.file.data)
IsEndOfTrack(e) == e.kind = "meta" /\ e.data = "end_of_track"

-----------------------------------------------------------------------------
(* Properties of the import, checked under SpecImport.                     *)

Called == io.op = "create_midi_file"
Written == Called /\ io.result = "ok"
WellFormed(h) == fromhex(h).ok
InputBytes == fromhex(io.hex_data).bytes

MThdBytes == <<77, 84, 104, 100>>
MTrkBytes == <<77, 84, 114, 107>>
\* MThd, length 6, format 0, one track, 96 ticks per quarter note
FileHeaderBytes == <<77, 84, 104, 100, 0, 0, 0, 6, 0, 0, 0, 1, 0, 96>>

BeginsWith(b, p) == Len(b) >= Len(p) /\ SubSeq(b, 1, Len(p)) = p
EndsWith(b, p) == Len(b) >= Len(p) /\ SubSeq(b, Len(b) - Len(p) + 1, Len(b)) = p
BE32(n) == <<(n \div 16777216) % 256, (n \div 65536) % 256,
             (n \div 256) % 256, n % 256>>

\* C4: a well-formed hex text whose first four bytes are 4D 54 68 64 is
\* written byte for byte: the file holds exactly the bytes the text denotes.
C4_PassThrough ==
    (Written /\ WellFormed(io.hex_data) /\ BeginsWith(InputBytes, MThdBytes))
        => fs.mid.data = InputBytes

\* C5: if the input's track data ends with the end-of-track event FF 2F 00,
\* the written file still ends with that complete three-byte event.
C5_EndOfTrackKept ==
    (Written /\ WellFormed(io.hex_data) /\ EndsWith(InputBytes, <<255, 47, 0>>))
        => EndsWith(fs.mid.data, <<255, 47, 0>>)

\* C8: a text with a non-hex character or of odd length makes the import fail
\* before anything is written: the file system is as it was before the call.
C8_MalformedRejected ==
    (Called /\ ~WellFormed(io.hex_data))
        => (io.result # "ok" /\ fs = io.fs_before)

\* C9: for a well-formed text beginning with 4D 54 72 6B the file is the
\* 14-byte header (format 0, one track, default resolution) followed by one
\* track chunk whose payload is the input without its first 8 bytes and whose
\* length field is the byte count of that payload.
C9_TrackChunkRepaired ==
    (Written /\ WellFormed(io.hex_data) /\ BeginsWith(InputBytes, MTrkBytes))
        => LET payload == SubSeq(InputBytes, 9, Len(InputBytes))
           IN  fs.mid.data =
                 FileHeaderBytes \o MTrkBytes \o BE32(Len(payload)) \o payload

\* C10: for a well-formed text of n bytes beginning with neither magic the
\* file is the header, a track-chunk header and the n input bytes unchanged:
\* 14 + 8 + n bytes, with the track length field equal to n.
C10_RawWrapped ==
    (/\ Written /\ WellFormed(io.hex_data)
     /\ ~BeginsWith(InputBytes, MThdBytes)
     /\ ~BeginsWith(InputBytes, MTrkBytes))
        => /\ fs.mid.data =
                FileHeaderBytes \o MTrkBytes \o BE32(Len(InputBytes)) \o InputBytes
           /\ Len(fs.mid.data) = 14 + 8 + Len(InputBytes)

-----------------------------------------------------------------------------
(* Properties of the output operations, checked under SpecOutput.          *)

Generated == out.op = "generate_midi"

\* a song that has measures but no note event, with nothing else in the way
\* of a successful write
NoNoteEvents ==
    /\ Generated
    /\ ~out.song_data.falsy
    /\ out.song_data.has_measures
    /\ \A i \in 1..Len(out.song_data.measures) : out.song_data.measures[i] = <<>>
    /\ ~out.song_data.enable_bass
    /\ ~(out.output_file.given /\ ~out.output_file.dir_exists)
    /\ out.io_outcome = "ok"

\* C11: a song with zero note events is not a fatal condition: generation
\* reports success and leaves a file of one track that holds no note.
C11_EmptySongSucceeds ==
    NoNoteEvents =>
        /\ out.report = "returned_path"
        /\ out.file.exists
        /\ Len(out.file.data) = 1
        /\ out.file.data[1].notes = <<>>

\* the operation failed or reported failure
OutFailed == out.op # "none" /\ out.error # "none"
ImportFailed == Called /\ io.result # "ok"

\* C15: no partial or invalid output file is left on disk: whenever an output
\* operation fails or reports failure, no file created by it remains.
C15_NothingLeftOnFailure ==
    /\ OutFailed => ~out.file.exists
    /\ ImportFailed => fs.mid = io.fs_before.mid /\ fs.txt = io.fs_before.txt

\* opening or writing the output file failed
OutWriteFailed ==
    out.op # "none" /\ out.error \in {"OSError", "FileNotFoundError"}
ImportWriteFailed == Called /\ io.result = "OSError"

\* C16: an I/O failure while writing the output file reaches the caller as an
\* error, not as a return value, and the write is attempted exactly once.
C16_WriteFailurePropagated ==
    /\ OutWriteFailed => out.report = "raised" /\ out.opens = 1
    /\ ImportWriteFailed => io.report = "raised" /\ io.opens = 1

-----------------------------------------------------------------------------
(* Properties of the versioned saves, checked under SpecSave and SpecRace. *)

Saves == 1..Len(store.saves)
Overwrote(i) == store.saves[i].replaced.exists

\* C13: when saves are performed one after another, the name chosen for a
\* save (the base name, else the first base_vN that is free) does not exist
\* when it is written, so the files that were there and the files written
\* before keep their content.
C13_SequentialNoOverwrite ==
    /\ \A i \in Saves : ~Overwrote(i) /\ store.saves[i].lower_taken
    /\ \A n \in Names : store.initial[n].exists => store.disk[n] = store.initial[n]
    /\ \A i \in Saves :
          store.disk[store.saves[i].name] = FileOf(store.saves[i].data)

\* the base name was taken, and two saves went to base_v1 and base_v2
C13_Witness ==
    /\ store.initial[0].exists
    /\ Len(store.saves) >= 2
    /\ store.saves[1].name = 1
    /\ store.saves[2].name = 2
    /\ store.disk[1] = FileOf(store.saves[1].data)

\* C14: under concurrent writers a save can overwrite a file, and the file
\* it overwrites is always one that the other writer wrote to the same name
\* after this writer found the name free; a file that was there from the
\* start is never overwritten.
C14_OverwriteIsARace ==
    /\ \A n \in Names : store.initial[n].exists => store.disk[n] = store.initial[n]
    /\ \A i \in Saves :
          Overwrote(i) =>
              \E j \in 1..(i - 1) :
                  /\ store.saves[j].name = store.saves[i].name
                  /\ store.saves[j].writer # store.saves[i].writer
                  /\ store.saves[i].replaced = FileOf(store.saves[j].data)

\* both writers chose the same name and the file of the first is lost
C14_Witness ==
    \E i \in Saves, j \in Saves :
        /\ j < i
        /\ Overwrote(i)
        /\ store.saves[j].name = store.saves[i].name
        /\ store.saves[j].writer # store.saves[i].writer
        /\ store.saves[j].data # store.saves[i].data
        /\ store.disk[store.saves[i].name] = FileOf(store.saves[i].data)
        /\ \A n \in Names : store.disk[n] # FileOf(store.saves[j].data)

-----------------------------------------------------------------------------
(* Properties of the time-signature normalizer, checked under SpecNorm.    *)

Converted == norm.op = "convert_to_4_4"

\* a = b * f for rationals, by cross-multiplication
IsProduct(a, b, fnum, fden) == a.num * b.den * fden = b.num * fnum * a.den

FactorOf(sig) ==
    CASE sig = "3/4" -> <<3, 4>>
      [] sig = "6/8" -> <<2, 3>>
      [] sig = "5/4" -> <<4, 5>>
      [] sig = "7/8" -> <<4, 7>>
      [] sig = "9/8" -> <<4, 9>>
      [] sig = "12/8" -> <<2, 3>>
      [] OTHER -> <<1, 1>>

FullMeasure(sig) ==
    CASE sig = "3/4" -> Rat(3, 1)
      [] sig = "6/8" -> Rat(6, 1)
      [] sig = "5/4" -> Rat(5, 1)

\* |r - 4.0| < 0.005: equal to 4.0 to two decimal places
AlmostFour(r) ==
    /\ 200 * r.num - 800 * r.den < r.den
    /\ 800 * r.den - 200 * r.num < r.den

\* C18: converting one full measure of 3/4, 6/8 or 5/4 yields one full 4/4
\* measure, 4.0 to two decimal places.
C18_FullMeasureIsFour ==
    (/\ Converted
     /\ norm.original_time_sig \in {"3/4", "6/8", "5/4"}
     /\ norm.duration = FullMeasure(norm.original_time_sig))
        => AlmostFour(norm.result)

-----------------------------------------------------------------------------
(* Properties of the delta-time codec, checked under SpecVlq.              *)

Coded == vlq.op = "roundtrip"

\* the least number of 7-bit groups that hold n
MinimalLength(n) ==
    IF n < 128 THEN 1 ELSE IF n < 16384 THEN 2 ELSE IF n < 2097152 THEN 3 ELSE 4

\* C20: for every n representable in 28 bits decodeVLQ(encodeVLQ(n)) = n,
\* the encoding has minimal length and at most 4 bytes, and encodeVLQ(0) is
\* the single byte 0x00.
C20_VlqRoundTrip ==
    Coded =>
        /\ vlq.decoded.ok /\ vlq.decoded.value = vlq.n
        /\ Len(vlq.bytes) = MinimalLength(vlq.n)
        /\ Len(vlq.bytes) <= 4
        /\ \A i \in 1..Len(vlq.bytes) :
              /\ vlq.bytes[i] \in 0..255
              /\ (vlq.bytes[i] >= 128) = (i < Len(vlq.bytes))
        /\ vlq.n = 0 => vlq.bytes = <<0>>

\* the largest 28-bit value took four bytes and came back
C20_Witness ==
    /\ Coded
    /\ vlq.n = 268435455
    /\ vlq.bytes = <<255, 255, 255, 127>>
    /\ vlq.decoded.value = 268435455

-----------------------------------------------------------------------------
(* Properties of two generator instances, checked under SpecPair.          *)

NotesOf(g) == gens.heap.files[gens.inst[g].midi]
LastEndOf(g) == gens.heap.lists[gens.inst[g].last_note_time]

\* C21: separate generator instances share no mutable state: under any
\* interleaving of add_pattern and write calls on two instances, each holds
\* exactly the notes and per-channel last end times it would hold had it
\* run alone.
C21_InstancesIndependent ==
    \A g \in GeneratorIds :
        /\ NotesOf(g) = gens.inst[g].alone.midi
        /\ LastEndOf(g) = gens.inst[g].alone.last

\* the first instance holds two notes on channel 0, the second pushed behind
\* the first, and was written; the other instance scheduled its own note on
\* channel 0 at time 0
C21_Witness ==
    /\ gens.inst[1].written
    /\ Len(NotesOf(1)) = 2 /\ Len(NotesOf(2)) >= 1
    /\ NotesOf(1)[1].channel = 0 /\ NotesOf(1)[1].duration = 16
    /\ NotesOf(1)[2].channel = 0 /\ NotesOf(1)[2].time = 16
    /\ NotesOf(2)[1].channel = 0 /\ NotesOf(2)[1].time = 0
    /\ LastEndOf(2)[0] < LastEndOf(1)[0]

-----------------------------------------------------------------------------
(* Properties of the hex dump, checked under SpecImport.                   *)

\* the dump after its heading line
DumpBody == Tail(fs.txt.data)

HexAt(t, i) == i \in 1..Len(t) /\ IsHexChar(t[i])

\* C22: the hex dump lists the bytes as two-digit pairs separated by single
\* spaces and wrapped so that every line holds whole pairs only: every run
\* of hex digits on a line is exactly two digits long.
C22_WholePairsPerLine ==
    Written =>
        \A i \in 1..Len(DumpBody) :
            HexAt(DumpBody, i) =>
                (HexAt(DumpBody, i - 1) # HexAt(DumpBody, i + 1))

\* what this call of create_midi_file wrote
DumpWritten == Called /\ fs.txt # io.fs_before.txt
BinaryWritten == Called /\ fs.mid # io.fs_before.mid

\* the bytes the dump lists
DumpBytes == fromhex(SelectSeq(DumpBody, IsHexChar)).bytes

\* C23: the hex dump is emitted together with the binary output: after
\* create_midi_file finishes, by returning or by raising, the dump of this
\* call exists if and only if the binary file was written, and both hold the
\* same bytes.
C23_DumpWithBinary ==
    Called =>
        /\ DumpWritten <=> BinaryWritten
        /\ DumpWritten => DumpBytes = fs.mid.data

-----------------------------------------------------------------------------
(* Drum pattern selection.                                                 *)

\* variation 0 is the genre's base pattern, variation k its k-th variation
SelectedConfig(genre, variation) == genre_patterns[genre][variation + 1]

\* C24: a generate_pattern call with genre g and variation v produces the
\* kick and snare positions, hi-hat subdivision and velocities of the
\* configuration selected by g and v, whatever was generated before on the
\* same instance.
C24_SelectedConfiguration ==
    (/\ drums.op = "generate_pattern"
     /\ drums.genre \in DrumGenres
     /\ drums.variation # NoVariation)
    => drums.pattern =
         MeasurePattern(SelectedConfig(drums.genre, drums.variation))

-----------------------------------------------------------------------------
(* Bass styles.                                                            *)

\* C25: generate_pattern raises ValueError whenever the style is not one of
\* the supported bass styles; it never returns a pattern for such a style.
C25_UnsupportedStyleRaises ==
    (/\ bass.op = "generate_pattern"
     /\ bass.style \notin BassStyles)
    => bass.raised = "ValueError"

-----------------------------------------------------------------------------
(* Time order per channel.                                                 *)

StartsOrdered ==
    \A i, j \in Notes :
        (i < j /\ midi[i].channel = midi[j].channel)
            => midi[i].time <= midi[j].time

LastEndMonotone ==
    \A c \in 0..(NumChannels - 1) : last_note_time'[c] >= last_note_time[c]

\* C26: whatever order the events arrive in, on each channel the scheduled
\* start times are non-decreasing in emission order, and the last end time
\* kept for a channel never decreases.
C26_TimeOrderImposed == []StartsOrdered /\ [][LastEndMonotone]_vars

\* a note asked for earlier than its predecessor on the channel, emitted
\* no earlier than it
C26_Witness ==
    \E i, j \in Notes :
        /\ i < j /\ midi[i].channel = midi[j].channel
        /\ midi[j].quantized_start < midi[i].time
        /\ midi[j].time >= midi[i].time
        /\ last_note_time[midi[j].channel] >= midi[j].time

-----------------------------------------------------------------------------
(* Scheduler conversion against the normalizer.                            *)

\* C27: for every time and every signature of the normalizer table, and
\* for 4/4, the scheduler's _convert_time_to_44 gives the same result as
\* the normalizer's convert_to_4_4.
C27_SameConversion ==
    norm.op = "both" => norm.scheduler = norm.normalizer

-----------------------------------------------------------------------------
(* Measure alignment of melody and accompaniment.                          *)

\* C28: for every measure index k the offset added to the accompaniment
\* notes of measure k equals the offset added to the melody notes of
\* measure k, whatever the note lengths of the measures before it.
C28_MeasureAligned ==
    (/\ render.op = "generate_midi"
     /\ render.error = "none"
     /\ render.accompaniment_style # "none")
    => \A k \in 1..Len(render.measures) :
          render.accompaniment_offsets[k] = render.melody_offsets[k]

-----------------------------------------------------------------------------
(* Bass track with and without accompaniment.                              *)

\* the melody alone goes through: at least one note, no malformed element
MelodyValid ==
    BuildSong(SongOf(out.song_data.measures, FALSE), out.style,
              out.genre).error = "none"

\* C29: for a song with at least one valid note, enable_bass true and a
\* genre given, generate_midi returns an output path both when
\* accompaniment_style is 'none' and when it is not.
C29_BassEitherWay ==
    (/\ out.op = "generate_midi"
     /\ out.song_data.has_measures /\ MelodyValid
     /\ out.song_data.enable_bass
     /\ out.genre # "None"
     /\ out.io_outcome = "ok"
     /\ ~(out.output_file.given /\ ~out.output_file.dir_exists))
    => out.report = "returned_path"

-----------------------------------------------------------------------------
(* Pattern cache size and eviction.                                        *)

CacheBounded == Len(cache.pattern_cache) <= cache.cache_size

\* a get_pattern step that caches a new pattern
CachesNew ==
    /\ cache'.op = "get_pattern"
    /\ cache'.cache_key \notin CacheKeys(cache.pattern_cache)
    /\ cache'.cache_key \in CacheKeys(cache'.pattern_cache)

EvictsEarliest ==
    (CachesNew /\ Len(cache.pattern_cache) = cache.cache_size)
    => /\ Len(cache'.pattern_cache) = cache.cache_size
       /\ CacheKeys(cache.pattern_cache) \ CacheKeys(cache'.pattern_cache)
            = { cache.pattern_cache[1].key }
       /\ SubSeq(cache'.pattern_cache, 1, cache.cache_size - 1)
            = Tail(cache.pattern_cache)

\* C30: with a cache size of at least 1 the pattern cache never holds more
\* than cache_size entries, and a pattern cached while the cache is full
\* evicts exactly one entry, the earliest-inserted one.
C30_BoundedFifo == []CacheBounded /\ [][EvictsEarliest]_vars

\* a full cache of two entries has just lost its first key to a new one
C30_Witness ==
    /\ cache.op = "get_pattern"
    /\ cache.cache_size >= 2
    /\ cache.evicted # << >>
    /\ Len(cache.pattern_cache) = cache.cache_size
    /\ cache.evicted[1] \notin CacheKeys(cache.pattern_cache)
    /\ cache.pattern_cache[Len(cache.pattern_cache)].key = cache.cache_key

=============================================================================
